---- MODULE Spec2Model ----
(***************************************************************************)
(* Model of src/server.py: one MaqsamVoiceAgent object (auth_token,        *)
(* websocket, call_context, heartbeat_task) whose handle_connection        *)
(* coroutine is run by websockets.serve once per client connection, all    *)
(* on one asyncio event loop.  A step of the model is the code a           *)
(* coroutine runs between two suspension points.                           *)
(***************************************************************************)
EXTENDS Naturals, FiniteSets, Sequences, TLC

VARIABLES websocket, call_context, heartbeat_task,
          pc, conn, closeCode, authRes, hb,
          ownCtx, lastEv

vars == <<websocket, call_context, heartbeat_task, pc, conn, closeCode,
          authRes, hb, ownCtx, lastEv>>

\* ---- bounds ----
\* The number of client connections the server accepts.
NumConns == 2

\* The connections, named in their order of arrival.
ConnNames == <<"c1", "c2", "c3", "c4">>

Conns == {ConnNames[i] : i \in 1..NumConns}

\* ---- program constants ----
AUTH_TOKEN == "2BUrGJJPmN7WvNzEtDmD"
CODE_UNAUTHORIZED == 1008
CODE_SETUP_FAILED == 1002
CODE_INVALID_JSON == 1002

None == "None"
NoMsg == [kind |-> "none", apiKey |-> "na", data |-> "na"]
NoReq == [auth |-> "na", authz |-> "na", err |-> FALSE]

\* ---- inputs ----
\* A header of the upgrade request: absent, the empty string, the token or
\* another value.
HeaderVals == {"absent", "empty", AUTH_TOKEN, "wrong"}

\* apiKey of a session.setup: absent, a falsy value (the empty string, null,
\* zero, false), the token or another value.
ApiKeyVals == {"absent", "empty", AUTH_TOKEN, "wrong"}

\* data of a session.setup: no data key; data that is not an object (null, a
\* number, a string); an object without context; context null; context a
\* string; context one of two objects.
SetupData == {"absent", "nonobj", "noctx", "ctxnull", "ctxstr", "ctxA", "ctxB"}

\* data of an audio.input: no data key; data that is not an object; an object
\* without audio; audio a base64 string; audio a value without a length.
AudioData == {"absent", "nonobj", "noaudio", "audio", "unsized"}

\* Inbound frames: the empty frame, a frame json.loads rejects with
\* JSONDecodeError, a frame on which json.loads raises another exception (a
\* binary frame that is not UTF-8, nesting beyond the recursion limit), JSON
\* that is not an object, an object of another (or no) type, session.setup,
\* audio.input.
Msgs ==
  [kind : {"empty", "badjson", "undecodable", "nonobj", "unknown"},
   apiKey : {"na"}, data : {"na"}]
    \cup [kind : {"setup"}, apiKey : ApiKeyVals, data : SetupData]
    \cup [kind : {"audio"}, apiKey : {"na"}, data : AudioData]

\* ---- pure parts of the handlers ----
\* A variant that looks at Authorization first.
AuthHeaderAuthorizationFirst(auth, authz) ==
  IF authz \in {"absent", "empty"} THEN auth ELSE authz

\* headers.get('Auth') or headers.get('Authorization')
AuthHeader(auth, authz) ==
  IF auth \in {"absent", "empty"} THEN authz ELSE auth

\* A variant that accepts the token in either header.
AuthOkEitherHeader(auth, authz) == auth = AUTH_TOKEN \/ authz = AUTH_TOKEN

\* not (auth_header != self.auth_token)
AuthOk(auth, authz) == AuthHeader(auth, authz) = AUTH_TOKEN

\* A variant without the early return.
HandlerProceedsAlways(authenticated) == TRUE

\* `if not await self.authenticate_connection(...): return`
HandlerProceeds(authenticated) == authenticated

\* A variant without the test for empty frames.
IsEmptyNever(m) == FALSE

\* `if not message`
IsEmpty(m) == m.kind = "empty"

\* A variant whose parse error is logged and swallowed like any other.
JsonInvalidSwallowed(m) == FALSE

\* A variant that treats every parse failure as malformed JSON.
JsonInvalidAnyParseError(m) == m.kind \in {"empty", "badjson", "undecodable"}

\* json.loads(message) raises JSONDecodeError (as it does on the empty
\* string, were it to get there)
JsonInvalid(m) == m.kind \in {"empty", "badjson"}

\* json.loads(message) raises an exception that is not a JSONDecodeError
ParseRaisesOther(m) == m.kind = "undecodable"

\* json.loads(message) is not a dict: data.get raises AttributeError
NotAnObject(m) == m.kind = "nonobj"

\* `if message_type == 'session.setup'`
IsSetup(m) == m.kind = "setup"

\* A variant whose second branch is a plain `else`.
IsAudioOrOther(m) == m.kind # "setup"

\* `elif message_type == 'audio.input'`
IsAudio(m) == m.kind = "audio"

\* A variant without the apiKey comparison.
ApiKeyMismatchUnchecked(apiKey) == FALSE

\* `api_key and api_key != self.auth_token`
ApiKeyMismatch(apiKey) ==
  apiKey \notin {"absent", "empty"} /\ apiKey # AUTH_TOKEN

\* handle_session_setup: the value returned and the call context it leaves.
HandleSessionSetup(m, ctx) ==
  IF ApiKeyMismatch(m.apiKey) THEN [ok |-> FALSE, ctx |-> ctx]
  ELSE IF m.data = "nonobj" THEN [ok |-> FALSE, ctx |-> ctx]
  ELSE IF m.data \in {"absent", "noctx"} THEN [ok |-> TRUE, ctx |-> "{}"]
  ELSE IF m.data = "ctxnull" THEN [ok |-> FALSE, ctx |-> None]
  ELSE IF m.data = "ctxstr" THEN [ok |-> FALSE, ctx |-> "str"]
  ELSE [ok |-> TRUE, ctx |-> m.data]

\* A variant that only logs the frame.
GeneratorCallsNone(m) == 0

\* handle_audio_input: the number of calls of generate_ai_response.
GeneratorCalls(m) ==
  IF m.data \in {"nonobj", "unsized"} THEN 0 ELSE 1

\* send_session_ready sends on self.websocket, the agent's handle.
SendTarget(ws, c) == ws

\* self.websocket.send(...) delivers a frame iff the handle is a connection
\* that is open; on None or on a closed connection it raises.
SendOk(ws) == ws # None /\ conn[ws] = "open"

\* What the last step was: the operation, the connection whose handler (or
\* heartbeat task) ran, the frame or upgrade request it consumed, the
\* connection on which it delivered a session.ready (None if none) and the
\* number of calls of generate_ai_response it made.
Ev(op, c, m, req, out, calls) ==
  [op |-> op, conn |-> c, msg |-> m, req |-> req, out |-> out, calls |-> calls]

\* No frame or upgrade request was consumed by the last step.
Idle == Ev("idle", None, NoMsg, NoReq, None, 0)

\* ---- initial state: MaqsamVoiceAgent.__init__, no connection yet ----
Init ==
  /\ websocket = None
  /\ call_context = None
  /\ heartbeat_task = None
  /\ pc = [c \in Conns |-> "idle"]
  /\ conn = [c \in Conns |-> "none"]
  /\ closeCode = [c \in Conns |-> {}]
  /\ authRes = [c \in Conns |-> "none"]
  /\ hb = [c \in Conns |-> "none"]
  /\ ownCtx = [c \in Conns |-> None]
  /\ lastEv = Idle

\* Connections arrive in the order of their names.
NextToArrive(c) ==
  \E i \in 1..NumConns :
    /\ c = ConnNames[i]
    /\ \A j \in 1..(i - 1) : pc[ConnNames[j]] # "idle"

\* ---- handle_connection up to its first suspension ----
\* err: the header lookup raised (the except branch of
\* authenticate_connection); the handler returns and the server library
\* closes the connection without a code of the agent's.
Connect(c, auth, authz, err) ==
  /\ pc[c] = "idle"
  /\ NextToArrive(c)
  /\ websocket' = c
  /\ lastEv' = Ev("connect", c, NoMsg, [auth |-> auth, authz |-> authz, err |-> err], None, 0)
  /\ authRes' = [authRes EXCEPT ![c] =
       IF err THEN "raised" ELSE IF AuthOk(auth, authz) THEN "ok" ELSE "bad"]
  /\ IF HandlerProceeds(~err /\ AuthOk(auth, authz)) THEN
       \* start_heartbeat, then wait for the first frame
       /\ conn' = [conn EXCEPT ![c] = "open"]
       /\ heartbeat_task' = c
       /\ hb' = [hb EXCEPT ![c] = "running"]
       /\ pc' = [pc EXCEPT ![c] = "recv"]
       /\ UNCHANGED closeCode
     ELSE IF err THEN
       /\ conn' = [conn EXCEPT ![c] = "closed"]
       /\ pc' = [pc EXCEPT ![c] = "done"]
       /\ UNCHANGED <<closeCode, heartbeat_task, hb>>
     ELSE
       \* websocket.close(code=1008, reason="Unauthorized")
       /\ conn' = [conn EXCEPT ![c] = "closed"]
       /\ closeCode' = [closeCode EXCEPT ![c] = {CODE_UNAUTHORIZED}]
       /\ pc' = [pc EXCEPT ![c] = "auth_closing"]
       /\ UNCHANGED <<heartbeat_task, hb>>
  /\ UNCHANGED <<call_context, ownCtx>>

\* websocket.close(code=1008) completed: authenticate_connection returns
\* False and handle_connection returns before its try block.
AuthReturn(c) ==
  /\ pc[c] = "auth_closing"
  /\ pc' = [pc EXCEPT ![c] = "done"]
  /\ lastEv' = Idle
  /\ UNCHANGED <<websocket, call_context, heartbeat_task, conn, closeCode,
                 authRes, hb, ownCtx>>

\* ---- one iteration of `async for message in websocket` ----
\* A variant without the `return`: the handler goes back to the loop.
ServerCloseNoReturn(c, code) ==
  /\ conn' = [conn EXCEPT ![c] = "closed"]
  /\ closeCode' = [closeCode EXCEPT ![c] = {code}]
  /\ UNCHANGED pc

\* websocket.close(code=...) followed by `return`
ServerClose(c, code) ==
  /\ conn' = [conn EXCEPT ![c] = "closed"]
  /\ closeCode' = [closeCode EXCEPT ![c] = {code}]
  /\ pc' = [pc EXCEPT ![c] = "closing"]

Recv(c, m) ==
  /\ pc[c] = "recv"
  /\ conn[c] = "open"
  /\ UNCHANGED <<websocket, heartbeat_task, authRes, hb>>
  /\ IF IsEmpty(m) THEN
       \* `continue`
       /\ lastEv' = Ev("recv", c, m, NoReq, None, 0)
       /\ UNCHANGED <<call_context, pc, conn, closeCode, ownCtx>>
     ELSE IF JsonInvalid(m) THEN
       /\ ServerClose(c, CODE_INVALID_JSON)
       /\ lastEv' = Ev("recv", c, m, NoReq, None, 0)
       /\ UNCHANGED <<call_context, ownCtx>>
     ELSE IF ParseRaisesOther(m) \/ NotAnObject(m) THEN
       \* `except Exception`: logged, the loop goes on
       /\ lastEv' = Ev("recv", c, m, NoReq, None, 0)
       /\ UNCHANGED <<call_context, pc, conn, closeCode, ownCtx>>
     ELSE IF IsSetup(m) THEN
       LET r == HandleSessionSetup(m, call_context)
           to == SendTarget(websocket, c) IN
       /\ call_context' = r.ctx
       /\ IF r.ok THEN
            /\ ownCtx' = [ownCtx EXCEPT ![c] = r.ctx]
            /\ lastEv' = Ev("recv", c, m, NoReq, IF SendOk(to) THEN to ELSE None, 0)
            /\ UNCHANGED <<pc, conn, closeCode>>
          ELSE
            /\ ServerClose(c, CODE_SETUP_FAILED)
            /\ lastEv' = Ev("recv", c, m, NoReq, None, 0)
            /\ UNCHANGED ownCtx
     ELSE IF IsAudio(m) THEN
       /\ lastEv' = Ev("recv", c, m, NoReq, None, GeneratorCalls(m))
       /\ UNCHANGED <<call_context, pc, conn, closeCode, ownCtx>>
     ELSE
       /\ lastEv' = Ev("recv", c, m, NoReq, None, 0)
       /\ UNCHANGED <<call_context, pc, conn, closeCode, ownCtx>>

\* The peer closes the connection while the handler waits for a frame.
PeerClose(c) ==
  /\ pc[c] = "recv"
  /\ conn[c] = "open"
  /\ conn' = [conn EXCEPT ![c] = "closed"]
  /\ lastEv' = Idle
  /\ UNCHANGED <<websocket, call_context, heartbeat_task, pc, closeCode,
                 authRes, hb, ownCtx>>

\* ---- the finally block ----
\* stop_heartbeat cancels the task self.heartbeat_task names and suspends
\* until it has ended if it is still running; the rest of the block follows
\* at once otherwise.
EnterFinally(c) ==
  IF heartbeat_task # None /\ hb[heartbeat_task] = "running" THEN
    /\ hb' = [hb EXCEPT ![heartbeat_task] = "done"]
    /\ pc' = [pc EXCEPT ![c] = "stopping"]
    /\ UNCHANGED <<websocket, call_context, heartbeat_task, ownCtx>>
  ELSE
    /\ heartbeat_task' = None
    /\ websocket' = None
    /\ call_context' = None
    /\ pc' = [pc EXCEPT ![c] = "done"]
    /\ ownCtx' = [ownCtx EXCEPT ![c] = None]
    /\ UNCHANGED hb

\* The message loop ends because the connection is closed.
LoopExit(c) ==
  /\ pc[c] = "recv"
  /\ conn[c] = "closed"
  /\ EnterFinally(c)
  /\ lastEv' = Idle
  /\ UNCHANGED <<conn, closeCode, authRes>>

\* websocket.close(code=1002) completed: `return` inside the try block.
CloseReturn(c) ==
  /\ pc[c] = "closing"
  /\ EnterFinally(c)
  /\ lastEv' = Idle
  /\ UNCHANGED <<conn, closeCode, authRes>>

\* The cancelled task has ended: stop_heartbeat resumes, then lines 211-212.
StopReturn(c) ==
  /\ pc[c] = "stopping"
  /\ heartbeat_task' = None
  /\ websocket' = None
  /\ call_context' = None
  /\ pc' = [pc EXCEPT ![c] = "done"]
  /\ ownCtx' = [ownCtx EXCEPT ![c] = None]
  /\ lastEv' = Idle
  /\ UNCHANGED <<conn, closeCode, authRes, hb>>

\* ---- heartbeat_loop, one wake-up of task t ----
\* With no usable handle, or when the ping fails, the loop breaks and the
\* task ends; a successful ping changes nothing.
HeartbeatEnds(t) ==
  /\ hb[t] = "running"
  /\ hb' = [hb EXCEPT ![t] = "done"]
  /\ lastEv' = Idle
  /\ UNCHANGED <<websocket, call_context, heartbeat_task, pc, conn, closeCode,
                 authRes, ownCtx>>

\* The record of the last step is read and dropped before the event loop
\* runs the next step: lastEv describes one step only.
Observe ==
  /\ lastEv # Idle
  /\ lastEv' = Idle
  /\ UNCHANGED <<websocket, call_context, heartbeat_task, pc, conn, closeCode,
                 authRes, hb, ownCtx>>

Step ==
  \/ \E c \in Conns, auth \in HeaderVals, authz \in HeaderVals :
       Connect(c, auth, authz, FALSE)
  \/ \E c \in Conns : Connect(c, "na", "na", TRUE)
  \/ \E c \in Conns : AuthReturn(c)
  \/ \E c \in Conns, m \in Msgs : Recv(c, m)
  \/ \E c \in Conns : PeerClose(c)
  \/ \E c \in Conns : LoopExit(c)
  \/ \E c \in Conns : CloseReturn(c)
  \/ \E c \in Conns : StopReturn(c)
  \/ \E t \in Conns : HeartbeatEnds(t)

Next ==
  \/ lastEv = Idle /\ Step
  \/ Observe

Spec == Init /\ [][Next]_vars

TypeOK ==
  /\ websocket \in Conns \cup {None}
  /\ call_context \in {None, "{}", "str", "ctxA", "ctxB"}
  /\ heartbeat_task \in Conns \cup {None}
  /\ \A c \in Conns : ownCtx[c] \in {None, "{}", "ctxA", "ctxB"}

\* ---- properties ----
Running(c) == pc[c] \in {"recv", "closing", "stopping"}

LastRecv(kind) == lastEv.op = "recv" /\ lastEv.msg.kind = kind

\* The credential the upgrade request presents (the Auth header, or the
\* Authorization header when there is no Auth header or an empty one) is not
\* the configured token.
NoValidCredential(req) ==
  /\ ~req.err
  /\ \/ req.auth \notin {"absent", "empty"} /\ req.auth # AUTH_TOKEN
     \/ req.auth \in {"absent", "empty"} /\ req.authz # AUTH_TOKEN

C2_FailedAuthGatesHandshake ==
  \A c \in Conns :
    authRes[c] \in {"bad", "raised"} =>
      /\ ~(lastEv.op = "recv" /\ lastEv.conn = c)
      /\ lastEv.out # c
      /\ ownCtx[c] = None
      /\ hb[c] = "none"
      /\ pc[c] \in {"auth_closing", "done"}

\* A session.setup is accepted on another connection while the agent's handle
\* names a connection that failed authentication.
C2_Witness ==
  /\ LastRecv("setup")
  /\ websocket # None
  /\ websocket # lastEv.conn
  /\ authRes[websocket] = "bad"
  /\ ownCtx[lastEv.conn] # None

WellFormedSetup(m) ==
  /\ m.kind = "setup"
  /\ m.apiKey \in {"absent", AUTH_TOKEN}
  /\ m.data \in {"absent", "noctx", "ctxA", "ctxB"}

\* C3: on an authenticated open connection every valid session.setup (apiKey
\* absent or the token, data well formed) is answered by exactly one
\* session.ready on that connection, and a connection is sent a session.ready
\* only in the step that accepts a session.setup of its own.
C3_SetupAnsweredOnce ==
  /\ (lastEv.op = "recv" /\ WellFormedSetup(lastEv.msg)) => lastEv.out = lastEv.conn
  /\ \A d \in Conns :
       lastEv.out = d => (LastRecv("setup") /\ lastEv.conn = d /\ ownCtx[d] # None)

\* The frame the last step consumed was a session.setup with this apiKey
\* class, and it was rejected as the claim describes: nothing delivered, call
\* context as before, connection closed with 1002.
RejectedStep(keys) ==
  (lastEv'.op = "recv" /\ lastEv'.msg.kind = "setup" /\ lastEv'.msg.apiKey \in keys)
    => /\ lastEv'.out = None
       /\ call_context' = call_context
       /\ ownCtx' = ownCtx
       /\ conn'[lastEv'.conn] = "closed"
       /\ closeCode'[lastEv'.conn] = {1002}

\* C4 as stated: every session.setup whose apiKey is present and differs from
\* the token is rejected.
C4_PresentMismatchRejected == [][RejectedStep({"empty", "wrong"})]_vars

\* C4: every session.setup whose apiKey is present, truthy and different from
\* the token is rejected: no session.ready, the call context unchanged, the
\* connection closed with code 1002.
C4_TruthyMismatchRejected == [][RejectedStep({"wrong"})]_vars

C4_Witness ==
  /\ LastRecv("setup")
  /\ lastEv.msg.apiKey = "wrong"
  /\ call_context \in {"ctxA", "ctxB"}
  /\ closeCode[lastEv.conn] = {1002}

ClosedProtocolError(c) == conn[c] = "closed" /\ closeCode[c] = {1002}

\* C5 as stated: every inbound payload that is not valid JSON closes the
\* connection with code 1002.
C5_NonJsonClosed1002 ==
  (lastEv.op = "recv" /\ lastEv.msg.kind \in {"empty", "badjson", "undecodable"})
    => ClosedProtocolError(lastEv.conn)

\* C5: every non-empty inbound payload that the JSON parser rejects with a
\* JSON decode error closes the connection with code 1002.
C5_NonEmptyNonJsonClosed1002 ==
  LastRecv("badjson") => (ClosedProtocolError(lastEv.conn) /\ pc[lastEv.conn] = "closing")

C5_Witness ==
  /\ LastRecv("badjson")
  /\ ClosedProtocolError(lastEv.conn)
  /\ ownCtx[lastEv.conn] # None

\* C6: a session.ready is delivered on the connection whose session.setup it
\* answers, never on another client's connection.
C6_ReadyOnOwnConnection ==
  lastEv.out # None => lastEv.out = lastEv.conn

\* C7: while a connection that completed session setup is open, the call
\* context equals the context of its own last accepted session.setup.
C7_ContextPerConnection ==
  \A c \in Conns :
    (pc[c] = "recv" /\ conn[c] = "open" /\ ownCtx[c] # None)
      => call_context = ownCtx[c]

\* C8: the call context is set only if some connection is still being served
\* and has had a session.setup accepted.
C8_ContextOnlyWhileOpen ==
  call_context # None => \E c \in Conns : Running(c) /\ ownCtx[c] # None

\* C9: the response generator is never invoked for an audio.input on a
\* connection on which no session.setup has been accepted.
C9_NoAudioBeforeSetup ==
  lastEv.calls > 0 => ownCtx[lastEv.conn] # None

\* The last step consumed an audio.input with this data class, called the
\* response generator exactly once, delivered nothing, left the call context
\* alone and kept the connection open.
AudioStep(datas) ==
  (lastEv'.op = "recv" /\ lastEv'.msg.kind = "audio" /\ lastEv'.msg.data \in datas)
    => /\ lastEv'.calls = 1
       /\ lastEv'.out = None
       /\ call_context' = call_context
       /\ conn'[lastEv'.conn] = "open"
       /\ pc'[lastEv'.conn] = "recv"
       /\ closeCode' = closeCode

\* C10 as stated: each audio.input produces exactly one call of the response
\* generator.
C10_AudioOneCall == [][AudioStep(AudioData)]_vars

\* C10: each audio.input whose data is absent or an object whose audio is
\* absent or a string produces exactly one call of the response generator,
\* sends nothing, leaves the call context unchanged and keeps the connection
\* open.
C10_WellFormedAudioOneCall == [][AudioStep({"absent", "noaudio", "audio"})]_vars

C10_Witness ==
  /\ LastRecv("audio")
  /\ lastEv.msg.data = "audio"
  /\ lastEv.calls = 1
  /\ call_context \in {"ctxA", "ctxB"}
  /\ conn[lastEv.conn] = "open"

\* C11: once the handler of a connection has finished, the heartbeat task it
\* started is no longer running, and there are never more heartbeat tasks
\* running than connections being served.
C11_HeartbeatTornDown ==
  /\ \A c \in Conns : pc[c] = "done" => hb[c] # "running"
  /\ Cardinality({t \in Conns : hb[t] = "running"})
       <= Cardinality({c \in Conns : Running(c)})

SetupAuthOk(m) == m.kind = "setup" /\ m.apiKey \in {"absent", "empty", AUTH_TOKEN}

SwallowedFailure(ev) ==
  /\ ev.op = "recv"
  /\ \/ ev.msg.kind \in {"nonobj", "undecodable"}
     \/ ev.msg.kind = "audio" /\ ev.msg.data \in {"nonobj", "unsized"}
     \/ /\ SetupAuthOk(ev.msg)
        /\ ev.msg.data \in {"absent", "noctx", "ctxA", "ctxB"}
        /\ ev.out = None

SetupRaised(ev) ==
  /\ ev.op = "recv"
  /\ SetupAuthOk(ev.msg)
  /\ ev.msg.data \in {"nonobj", "ctxnull", "ctxstr"}

\* The connection is left open and its handler waiting for the next frame
\* (the guard of Recv).
StaysOpen(c) ==
  /\ conn'[c] = "open"
  /\ pc'[c] = "recv"
  /\ closeCode'[c] = {}

\* C12 as stated: every failure while processing a frame, other than
\* malformed JSON and a session.setup that fails apiKey authentication, is
\* swallowed and the connection stays open.
C12_OtherFailuresSwallowed ==
  [][(SwallowedFailure(lastEv') \/ SetupRaised(lastEv')) => StaysOpen(lastEv'.conn)]_vars

\* C12: every failure while processing a frame, other than malformed JSON
\* and a failed session.setup (apiKey mismatch or an exception inside
\* handle_session_setup), is swallowed: the connection stays open and the
\* handler waits for the next frame.
C12_NonSetupFailuresSwallowed ==
  [][SwallowedFailure(lastEv') => StaysOpen(lastEv'.conn)]_vars

\* A session.setup was accepted but its session.ready could not be sent.
C12_Witness ==
  /\ LastRecv("setup")
  /\ ownCtx[lastEv.conn] # None
  /\ lastEv.out = None
  /\ conn[lastEv.conn] = "open"
  /\ pc[lastEv.conn] = "recv"

\* The credential of an upgrade request: the Auth header if it is present and
\* not empty, the Authorization header otherwise.
Credential(req) ==
  CASE req.auth = "absent" -> req.authz
    [] req.auth = "empty" -> req.authz
    [] OTHER -> req.auth

\* C13: header authentication succeeds exactly when the credential of the
\* upgrade request equals the configured token; a wrong Auth header is
\* rejected even when Authorization carries the token.
C13_HeaderAuthByCredential ==
  lastEv.op = "connect" =>
    /\ (authRes[lastEv.conn] = "ok")
         <=> (~lastEv.req.err /\ Credential(lastEv.req) = AUTH_TOKEN)
    /\ (authRes[lastEv.conn] = "ok")
         <=> (conn[lastEv.conn] = "open" /\ pc[lastEv.conn] = "recv")

\* An empty Auth header falls through to Authorization.
C13_Witness ==
  /\ lastEv.op = "connect"
  /\ lastEv.req.auth = "empty"
  /\ lastEv.req.authz = AUTH_TOKEN
  /\ authRes[lastEv.conn] = "ok"

\* The context a session.setup carries: the empty mapping when it has no data
\* or no context.
CarriedContext(m) == IF m.data \in {"absent", "noctx"} THEN "{}" ELSE m.data

\* C14: an accepted session.setup leaves the call context equal to its
\* data.context, and a rejected session.setup (answered by close code 1002)
\* leaves the call context as it was.
C14_ContextFromLastAccepted ==
  [][(lastEv'.op = "recv" /\ lastEv'.msg.kind = "setup")
       => IF closeCode'[lastEv'.conn] = {1002}
            THEN call_context' = call_context
            ELSE call_context' = CarriedContext(lastEv'.msg)]_vars

\* C15: whenever every handler that was started has finished (by failed
\* header authentication with close code 1008, invalid JSON, a rejected
\* session.setup or the peer's close), the agent holds no transport handle,
\* no call context and no heartbeat task.
C15_NothingHeldWhenIdle ==
  (/\ \A c \in Conns : pc[c] \in {"idle", "done"} /\ authRes[c] # "raised"
   /\ \E c \in Conns : pc[c] = "done")
    => (websocket = None /\ call_context = None /\ heartbeat_task = None)

\* C16: once the server has closed a connection with code 1002, its handler
\* consumes no further frame, no session.ready is delivered on it and the
\* handler only moves on to its cleanup.
C16_NothingAfter1002 ==
  [][\A c \in Conns :
       closeCode[c] = {1002} =>
         /\ ~(lastEv'.op = "recv" /\ lastEv'.conn = c)
         /\ lastEv'.out # c
         /\ pc[c] \in {"closing", "stopping", "done"}
         /\ pc[c] = "closing" => pc'[c] \in {"closing", "stopping", "done"}
         /\ pc[c] = "stopping" => pc'[c] \in {"stopping", "done"}
         /\ pc[c] = "done" => pc'[c] = "done"
         /\ conn'[c] = "closed"
         /\ closeCode'[c] = {1002}]_vars

\* Another handler tries to send through the handle of a connection closed
\* with 1002 and delivers nothing.
C16_Witness ==
  /\ LastRecv("setup")
  /\ ownCtx[lastEv.conn] # None
  /\ websocket # None
  /\ websocket # lastEv.conn
  /\ closeCode[websocket] = {1002}
  /\ lastEv.out = None

\* The step consumed a frame of this kind and changed nothing: nothing sent,
\* no generator call, agent fields, heartbeat tasks and connections as before.
NoEffectStep(kind) ==
  (lastEv'.op = "recv" /\ lastEv'.msg.kind = kind)
    => /\ lastEv'.out = None
       /\ lastEv'.calls = 0
       /\ UNCHANGED <<websocket, call_context, heartbeat_task, hb, ownCtx,
                      conn, closeCode, pc, authRes>>
       /\ conn[lastEv'.conn] = "open"
       /\ pc[lastEv'.conn] = "recv"

\* C17: a JSON object whose type is neither session.setup nor audio.input
\* changes nothing and leaves the connection open.
C17_UnknownTypeNoEffect == [][NoEffectStep("unknown")]_vars

C17_Witness ==
  /\ LastRecv("unknown")
  /\ call_context \in {"ctxA", "ctxB"}
  /\ conn[lastEv.conn] = "open"
  /\ hb[lastEv.conn] = "running"

\* C18: an empty frame is skipped: nothing is sent, nothing changes, the
\* connection stays open and the handler waits for the next frame.
C18_EmptySkipped == [][NoEffectStep("empty")]_vars

C18_Witness ==
  /\ LastRecv("empty")
  /\ call_context \in {"ctxA", "ctxB"}
  /\ conn[lastEv.conn] = "open"
  /\ pc[lastEv.conn] = "recv"

====
